---- MODULE Spec2Model ----
(***************************************************************************)
(* A model of reddit_content_remover.py: the OAuth callback listener, the  *)
(* authenticator, the two deletion loops and the interactive driver, as    *)
(* one sequential process whose position is pc.                            *)
(*                                                                         *)
(* Python exceptions are modelled by their class: "Exception" (caught by   *)
(* `except Exception`), "KeyboardInterrupt" and "SystemExit" (both derive  *)
(* from BaseException and pass through `except Exception`).                *)
(* Strings read from the console are tuples of one-character strings, so   *)
(* that strip() and lower() are computed rather than assumed.              *)
(***************************************************************************)
EXTENDS Integers, Sequences, FiniteSets, TLC

VARIABLES
    env,              \* os.environ after load_dotenv(): variable -> value
    pc,               \* position of the process
    exitStatus,       \* process exit status, -1 while running
    unhandled,        \* exception class that left main uncaught, or "none"
    out,              \* console output: sequence of <<text, number>>
    events,           \* external calls and signals, in order
    server,           \* the HTTPServer: state, oauth_code, handled, page
    request,          \* the request the listener handled
    oauth_code,       \* setup_reddit's local oauth_code
    choiceRaw,        \* what input() returned at the scope prompt
    choice,           \* main's choice
    confirmRaw,       \* what input() returned at the confirmation prompt
    confirm,          \* main's confirm
    posts_deleted,    \* main's posts_deleted
    comments_deleted, \* main's comments_deleted
    cur,              \* kind the running deletion loop works on
    deleted_count,    \* the running loop's deleted_count
    item,             \* index of the item the loop holds
    listed,           \* kind -> number of items the listing yielded
    failed,           \* kind -> indices whose delete raised Exception
    gone,             \* kind -> indices deleted on the platform
    ended,            \* kind -> how the loop of that kind ended
    invoked           \* kind -> number of invocations of its deleter

vars == <<env, pc, exitStatus, unhandled, out, events, server, request,
          oauth_code, choiceRaw, choice, confirmRaw, confirm, posts_deleted,
          comments_deleted, cur, deleted_count, item, listed, failed, gone,
          ended, invoked>>

\* ------------------------------------------------------------------ bounds

\* Longest listing of one kind the platform returns.
MaxItems == 2

\* ------------------------------------------------------------- Python values

\* Python strings are tuples; None is a tuple no string equals.
None == <<"<None>">>

Kinds == {"post", "comment"}

\* Truth value of an Optional[str]: None and "" are falsy.
Truthy(x) == x # None /\ x # <<>>

\* ------------------------------------------------------------------ strings

Whitespace == {" ", "\t"}

RECURSIVE LStrip(_)
LStrip(s) == IF s # <<>> /\ Head(s) \in Whitespace THEN LStrip(Tail(s)) ELSE s

RECURSIVE RStrip(_)
RStrip(s) ==
    IF s # <<>> /\ s[Len(s)] \in Whitespace
    THEN RStrip(SubSeq(s, 1, Len(s) - 1))
    ELSE s

\* str.strip()
Strip(s) == RStrip(LStrip(s))

LowerChar(c) ==
    CASE c = "Y" -> "y"
      [] c = "E" -> "e"
      [] c = "S" -> "s"
      [] c = "N" -> "n"
      [] c = "O" -> "o"
      [] OTHER -> c

\* str.lower()
Lower(s) == [i \in 1..Len(s) |-> LowerChar(s[i])]

\* ------------------------------------------------------- validate_env_vars

required_vars == <<"REDDIT_CLIENT_ID", "REDDIT_CLIENT_SECRET", "REDDIT_USER_AGENT">>

RequiredSet == {required_vars[i] : i \in 1..Len(required_vars)}

\* An environment variable is unset (None), set to "" or set to a value.
EnvValues == {None, <<>>, <<"v">>}

Getenv(e, var) == e[var]

\* IsMissing testing only for an unset variable (getenv(var) is None).
IsMissingUnsetOnly(e, var) == Getenv(e, var) = None

IsMissing(e, var) == ~Truthy(Getenv(e, var))

missing_vars(e) == SelectSeq(required_vars, LAMBDA var : IsMissing(e, var))

\* ------------------------------------------------------------ OAuthHandler

\* A request is [method, query]; query is the query string of self.path cut
\* at "&" and "=": a sequence of <<name, raw value>>, the raw value a tuple
\* of tokens ("%41" is a percent escape, "+" an encoded space).
Requests ==
    { [method |-> "GET", query |-> <<>>],
      [method |-> "GET", query |-> << <<"code", <<"ABC123">>>> >>],
      [method |-> "GET", query |-> << <<"state", <<"uniquestate">>>>,
                                      <<"code", <<"%41", "+">>>> >>],
      [method |-> "GET", query |-> << <<"code", <<>>>> >>],
      [method |-> "GET", query |-> << <<"code", <<>>>>, <<"code", <<"x">>>> >>],
      [method |-> "GET", query |-> << <<"error", <<"access_denied">>>> >>],
      [method |-> "POST", query |-> << <<"code", <<"ABC123">>>> >>] }

NoRequest == [method |-> "none", query |-> <<>>]

UnquoteTok(t) ==
    CASE t = "%41" -> "A"
      [] t = "+" -> " "
      [] OTHER -> t

\* urllib.parse.unquote_plus on one value
Unquote(v) == [i \in 1..Len(v) |-> UnquoteTok(v[i])]

\* ParseQs with keep_blank_values=True.
ParseQsKeepBlank(query, name) ==
    LET kept == SelectSeq(query, LAMBDA f : f[1] = name)
    IN  [i \in 1..Len(kept) |-> Unquote(kept[i][2])]

\* parse_qs(query)[name]: the decoded values of the fields called name, in
\* order; fields with a blank value are dropped (keep_blank_values=False).
\* The empty sequence stands for "name not in the dict".
ParseQs(query, name) ==
    LET kept == SelectSeq(query, LAMBDA f : f[1] = name /\ f[2] # <<>>)
    IN  [i \in 1..Len(kept) |-> Unquote(kept[i][2])]

NewServer == [state |-> "listening", oauth_code |-> None, handled |-> 0,
              page |-> "none"]

\* What handling request r does to the server object: do_GET for a GET,
\* BaseHTTPRequestHandler's 501 answer for a method without a do_ method.
do_GET(srv, r) ==
    LET codes == ParseQs(r.query, "code")
    IN  IF r.method # "GET"
        THEN [srv EXCEPT !.handled = @ + 1, !.page = "unsupported"]
        ELSE IF codes # <<>>
        THEN [srv EXCEPT !.handled = @ + 1, !.oauth_code = codes[1],
                         !.page = "success"]
        ELSE [srv EXCEPT !.handled = @ + 1, !.page = "failure"]

\* --------------------------------------------------------------------- main

\* ValidChoice accepting any one-character answer.
ValidChoiceAnyChar(c) == Len(c) = 1

ValidChoice(c) == c \in {<<"1">>, <<"2">>, <<"3">>}

SelectsPosts(c) == c \in {<<"1">>, <<"3">>}

\* SelectsComments testing choice in ['1', '2', '3'].
SelectsCommentsAlways(c) == c \in {<<"1">>, <<"2">>, <<"3">>}

SelectsComments(c) == c \in {<<"2">>, <<"3">>}

\* IsYes as the test confirm != 'no'.
IsNotNo(c) == c # <<"n", "o">>

\* confirm != 'yes' is the negation of this
IsYes(c) == c = <<"y", "e", "s">>

\* .strip() of the scope prompt's input
NormChoice(raw) == Strip(raw)

\* .strip().lower() of the confirmation prompt's input
NormConfirm(raw) == Lower(Strip(raw))

SummaryLines(ch, p, c) ==
    (IF SelectsPosts(ch) THEN << <<"Posts deleted", p>> >> ELSE <<>>)
    \o (IF SelectsComments(ch) THEN << <<"Comments deleted", c>> >> ELSE <<>>)

\* The except clause of main that takes an exception of class exc raised
\* inside (inner) or outside the inner try block.
Handler(exc, inner) ==
    IF inner /\ exc = "KeyboardInterrupt" THEN "partial"
    ELSE IF exc = "Exception" THEN "error_exit"
    ELSE "uncaught"

\* An exception of class exc reaches main with o printed so far.
Raise(exc, inner, o) ==
    LET h == Handler(exc, inner)
    IN  /\ pc' = "exited"
        /\ out' = CASE h = "partial" ->
                         o \o << <<"Operation cancelled by user.", 0>>,
                                 <<"Partial Deletion Summary:", 0>> >>
                           \o SummaryLines(choice, posts_deleted, comments_deleted)
                    [] h = "error_exit" -> Append(o, <<"An error occurred", 0>>)
                    [] OTHER -> o
        /\ exitStatus' = CASE h = "partial" -> 0
                           [] h = "error_exit" -> 1
                           [] exc = "SystemExit" -> 1
                           [] OTHER -> 130
        /\ unhandled' = IF h = "uncaught" /\ exc # "SystemExit" THEN exc ELSE "none"

Ev(op, k, i, r) == [op |-> op, kind |-> k, item |-> i, res |-> r]

Outcomes == {"ok", "Exception", "KeyboardInterrupt"}

\* ------------------------------------------------------------------- state

Init ==
    /\ env \in [RequiredSet -> EnvValues]
    /\ pc = "start"
    /\ exitStatus = -1
    /\ unhandled = "none"
    /\ out = <<>>
    /\ events = <<>>
    /\ server = [state |-> "none", oauth_code |-> None, handled |-> 0,
                 page |-> "none"]
    /\ request = NoRequest
    /\ oauth_code = None
    /\ choiceRaw = None
    /\ choice = <<>>
    /\ confirmRaw = None
    /\ confirm = <<>>
    /\ posts_deleted = 0
    /\ comments_deleted = 0
    /\ cur = "none"
    /\ deleted_count = 0
    /\ item = 0
    /\ listed = [k \in Kinds |-> 0]
    /\ failed = [k \in Kinds |-> {}]
    /\ gone = [k \in Kinds |-> {}]
    /\ ended = [k \in Kinds |-> "none"]
    /\ invoked = [k \in Kinds |-> 0]

authVars == <<server, request, oauth_code>>
promptVars == <<choiceRaw, choice, confirmRaw, confirm>>
tallyVars == <<posts_deleted, comments_deleted>>
loopVars == <<cur, deleted_count, item, listed, failed, gone, ended, invoked>>

\* ------------------------------------------------------------ setup_reddit

\* load_dotenv(); validate_env_vars(): print the missing names and
\* sys.exit(1), or go on to build the client.
ValidateEnvVars ==
    /\ pc = "start"
    /\ LET m == missing_vars(env)
       IN  IF m # <<>>
           THEN Raise("SystemExit", FALSE,
                      << <<"Error: Missing required environment variables:", 0>> >>
                      \o [i \in 1..Len(m) |-> <<m[i], 0>>]
                      \o << <<"Please check your .env file", 0>> >>)
           ELSE /\ pc' = "reddit"
                /\ UNCHANGED <<out, exitStatus, unhandled>>
    /\ UNCHANGED <<env, events, authVars, promptVars, tallyVars, loopVars>>

\* praw.Reddit(...), reddit.auth.url(...), print it, webbrowser.open (a
\* failure to open is reported and ignored).
BuildAuthUrl ==
    /\ pc = "reddit"
    /\ \E opened \in BOOLEAN :
         /\ events' = events \o <<Ev("auth_url", "none", 0, "ok"),
                                  Ev("browser", "none", 0,
                                     IF opened THEN "ok" ELSE "Exception")>>
         /\ out' = out \o << <<"Please authorize the application:", 0>> >>
                       \o (IF opened THEN <<>>
                           ELSE << <<"Could not open browser automatically.", 0>> >>)
                       \o << <<"Waiting for authorization...", 0>> >>
    /\ pc' = "listen"
    /\ UNCHANGED <<env, exitStatus, unhandled, authVars, promptVars, tallyVars,
                   loopVars>>

\* get_oauth_code: HTTPServer(('localhost', 8080), OAuthHandler) binds the
\* port (outside the try: a failure to bind is an Exception for main), and
\* server.oauth_code = None.
StartListener ==
    /\ pc = "listen"
    /\ \E res \in {"ok", "Exception"} :
         /\ events' = Append(events, Ev("listen", "none", 0, res))
         /\ IF res = "ok"
            THEN /\ server' = NewServer
                 /\ pc' = "waiting"
                 /\ UNCHANGED <<out, exitStatus, unhandled>>
            ELSE /\ Raise("Exception", FALSE, out)
                 /\ UNCHANGED server
    /\ UNCHANGED <<env, request, oauth_code, promptVars, tallyVars, loopVars>>

\* What setup_reddit does with the code get_oauth_code returned.
GotCode(code, o) ==
    /\ oauth_code' = code
    /\ IF ~Truthy(code)
       THEN Raise("Exception", FALSE, o)
       ELSE /\ pc' = "authorize"
            /\ out' = o
            /\ UNCHANGED <<exitStatus, unhandled>>

\* server.handle_request(): one request is handled and the server closed;
\* an Exception returns None; a KeyboardInterrupt closes the server and
\* goes up through setup_reddit.
HandleRequest ==
    /\ pc = "waiting"
    /\ server.state = "listening"
    /\ \/ \E r \in Requests :
            /\ request' = r
            /\ server' = [do_GET(server, r) EXCEPT !.state = "closed"]
            /\ events' = Append(events, Ev("request", "none", 0, "ok"))
            /\ GotCode(server'.oauth_code, out)
       \/ /\ server' = [server EXCEPT !.state = "closed"]
          /\ events' = Append(events, Ev("request", "none", 0, "Exception"))
          /\ GotCode(None, Append(out, <<"Error while getting OAuth code", 0>>))
          /\ UNCHANGED request
       \/ /\ server' = [server EXCEPT !.state = "closed"]
          /\ events' = Append(events, Ev("SIGINT", "none", 0, "listen"))
          /\ Raise("KeyboardInterrupt", FALSE, out)
          /\ UNCHANGED <<request, oauth_code>>
    /\ UNCHANGED <<env, promptVars, tallyVars, loopVars>>

\* reddit.auth.authorize(oauth_code); any Exception is wrapped and raised.
Authorize ==
    /\ pc = "authorize"
    /\ \E res \in Outcomes :
         /\ events' = Append(events, Ev(IF res = "KeyboardInterrupt"
                                        THEN "SIGINT" ELSE "authorize",
                                        "none", 0, res))
         /\ IF res = "ok"
            THEN /\ pc' = "main_me"
                 /\ out' = Append(out, <<"Authorization successful!", 0>>)
                 /\ UNCHANGED <<exitStatus, unhandled>>
            ELSE Raise(res, FALSE, out)
    /\ UNCHANGED <<env, authVars, promptVars, tallyVars, loopVars>>

\* ------------------------------------------------------------------ prompts

\* username = reddit.user.me().name
MainMe ==
    /\ pc = "main_me"
    /\ \E res \in Outcomes :
         /\ events' = Append(events, Ev(IF res = "KeyboardInterrupt"
                                        THEN "SIGINT" ELSE "me",
                                        "none", 0, res))
         /\ IF res = "ok"
            THEN /\ pc' = "choice"
                 /\ out' = Append(out, <<"What would you like to delete?", 0>>)
                 /\ UNCHANGED <<exitStatus, unhandled>>
            ELSE Raise(res, FALSE, out)
    /\ UNCHANGED <<env, authVars, promptVars, tallyVars, loopVars>>

\* What the user may type at the scope prompt.
ChoiceInputs == {<<"1">>, <<"2">>, <<"3">>, <<" ", "3">>, <<"4">>, <<>>,
                 <<"1", "2">>, <<"y", "e", "s">>}

\* What the user may type at the confirmation prompt.
ConfirmInputs == {<<"y", "e", "s">>, <<" ", "Y", "e", "S", " ">>, <<"n", "o">>,
                  <<"y">>, <<>>, <<"y", "e", "s", "!">>, <<"y", " ", "e", "s">>}

\* choice = input(...).strip(); anything but 1, 2, 3 prints and returns.
ReadChoice ==
    /\ pc = "choice"
    /\ \/ \E raw \in ChoiceInputs :
            /\ choiceRaw' = raw
            /\ choice' = NormChoice(raw)
            /\ UNCHANGED events
            /\ IF ~ValidChoice(choice')
               THEN /\ out' = Append(out, <<"Invalid choice. Exiting.", 0>>)
                    /\ pc' = "exited"
                    /\ exitStatus' = 0
                    /\ UNCHANGED unhandled
               ELSE /\ pc' = "confirm"
                    /\ UNCHANGED <<out, exitStatus, unhandled>>
       \/ /\ events' = Append(events, Ev("SIGINT", "none", 0, "choice"))
          /\ Raise("KeyboardInterrupt", FALSE, out)
          /\ UNCHANGED <<choiceRaw, choice>>
    /\ UNCHANGED <<env, authVars, confirmRaw, confirm, tallyVars, loopVars>>

\* confirm = input(...).strip().lower(); anything but yes prints and
\* returns; yes zeroes the tallies and enters the first selected deleter.
ReadConfirm ==
    /\ pc = "confirm"
    /\ \/ \E raw \in ConfirmInputs :
            /\ confirmRaw' = raw
            /\ confirm' = NormConfirm(raw)
            /\ UNCHANGED events
            /\ IF ~IsYes(confirm')
               THEN /\ out' = Append(out, <<"Deletion cancelled.", 0>>)
                    /\ pc' = "exited"
                    /\ exitStatus' = 0
                    /\ UNCHANGED <<unhandled, tallyVars, cur>>
               ELSE /\ posts_deleted' = 0
                    /\ comments_deleted' = 0
                    /\ pc' = "deleter_me"
                    /\ cur' = IF SelectsPosts(choice) THEN "post" ELSE "comment"
                    /\ UNCHANGED <<out, exitStatus, unhandled>>
       \/ /\ events' = Append(events, Ev("SIGINT", "none", 0, "confirm"))
          /\ Raise("KeyboardInterrupt", FALSE, out)
          /\ UNCHANGED <<confirmRaw, confirm, tallyVars, cur>>
    /\ UNCHANGED <<env, authVars, choiceRaw, choice, deleted_count, item, listed,
                   failed, gone, ended, invoked>>

\* ------------------------------------ delete_all_posts / delete_all_comments

\* The loop of kind k is over (how says why): print the completion line,
\* return deleted_count to main, which stores it and goes on to the
\* comments if the posts were first and comments are selected too.
Return(k, how, o) ==
    /\ ended' = [ended EXCEPT ![k] = how]
    /\ out' = Append(o, <<IF k = "post" THEN "Post deletion complete!"
                          ELSE "Comment deletion complete!", deleted_count'>>)
    /\ posts_deleted' = IF k = "post" THEN deleted_count' ELSE posts_deleted
    /\ comments_deleted' = IF k = "comment" THEN deleted_count' ELSE comments_deleted
    /\ IF k = "post" /\ SelectsComments(choice)
       THEN pc' = "deleter_me" /\ cur' = "comment"
       ELSE pc' = "summary" /\ cur' = "none"
    /\ UNCHANGED <<exitStatus, unhandled>>

\* user = reddit.user.me(); deleted_count = 0. The call is outside the try
\* blocks of the deleter: whatever it raises goes to main.
DeleterMe ==
    /\ pc = "deleter_me"
    /\ invoked' = [invoked EXCEPT ![cur] = @ + 1]
    /\ \E res \in Outcomes :
         /\ events' = Append(events, Ev(IF res = "KeyboardInterrupt"
                                        THEN "SIGINT" ELSE "me", cur, 0, res))
         /\ IF res = "ok"
            THEN /\ deleted_count' = 0
                 /\ item' = 0
                 /\ ended' = [ended EXCEPT ![cur] = "running"]
                 /\ pc' = "loop_next"
                 /\ out' = Append(out, <<"Starting deletion process", 0>>)
                 /\ UNCHANGED <<exitStatus, unhandled>>
            ELSE /\ Raise(res, TRUE, out)
                 /\ ended' = [ended EXCEPT ![cur] = "me_" \o res]
                 /\ UNCHANGED <<deleted_count, item>>
    /\ UNCHANGED <<env, authVars, promptVars, tallyVars, cur, listed, failed, gone>>

\* The for statement asks the listing for its next item: an item, the end
\* of the listing, an Exception while fetching, or a KeyboardInterrupt.
NextItem ==
    /\ pc = "loop_next"
    /\ \/ /\ listed[cur] < MaxItems
          /\ listed' = [listed EXCEPT ![cur] = @ + 1]
          /\ item' = listed'[cur]
          /\ pc' = "loop_delete"
          /\ UNCHANGED <<events, out, exitStatus, unhandled, tallyVars, cur,
                         deleted_count, ended>>
       \/ /\ UNCHANGED <<events, listed, item, deleted_count>>
          /\ Return(cur, "exhausted", out)
       \/ /\ events' = Append(events, Ev("fetch", cur, 0, "Exception"))
          /\ UNCHANGED <<listed, item, deleted_count>>
          /\ Return(cur, "fetch_error", Append(out, <<"Error fetching", 0>>))
       \/ /\ events' = Append(events, Ev("SIGINT", cur, 0, "fetch"))
          /\ UNCHANGED <<listed, item, deleted_count>>
          /\ Return(cur, "interrupted",
                    Append(out, <<"Deletion interrupted by user.", 0>>))
    /\ UNCHANGED <<env, authVars, promptVars, failed, gone, invoked>>

\* item.delete() returned: deleted_count += 1, then on to time.sleep(2).
DeleteOk ==
    /\ events' = Append(events, Ev("delete", cur, item, "ok"))
    /\ gone' = [gone EXCEPT ![cur] = @ \cup {item}]
    /\ deleted_count' = deleted_count + 1
    /\ pc' = "loop_sleep"
    /\ UNCHANGED <<out, exitStatus, unhandled, tallyVars, cur, failed, ended>>

\* DeleteRaises without the inner try: the Exception reaches the outer
\* except clause and ends the loop.
DeleteRaisesAborts ==
    /\ events' = Append(events, Ev("delete", cur, item, "Exception"))
    /\ failed' = [failed EXCEPT ![cur] = @ \cup {item}]
    /\ UNCHANGED <<deleted_count, gone>>
    /\ Return(cur, "fetch_error", Append(out, <<"Error fetching", 0>>))

\* item.delete() raised Exception: the inner except clause prints it and
\* continues with the next item; the rest of the try body is skipped.
DeleteRaises ==
    /\ events' = Append(events, Ev("delete", cur, item, "Exception"))
    /\ failed' = [failed EXCEPT ![cur] = @ \cup {item}]
    /\ out' = Append(out, <<"Error deleting", 0>>)
    /\ pc' = "loop_next"
    /\ UNCHANGED <<exitStatus, unhandled, tallyVars, cur, deleted_count, gone,
                   ended>>

\* KeyboardInterrupt in item.delete() (the delete may or may not have
\* reached the platform): the outer except clause ends the loop.
DeleteInterrupted ==
    \E landed \in BOOLEAN :
      /\ events' = events \o <<Ev("delete", cur, item, "KeyboardInterrupt"),
                               Ev("SIGINT", cur, item, "delete")>>
      /\ gone' = [gone EXCEPT ![cur] = IF landed THEN @ \cup {item} ELSE @]
      /\ UNCHANGED <<deleted_count, failed>>
      /\ Return(cur, "interrupted",
                Append(out, <<"Deletion interrupted by user.", 0>>))

\* The loop body up to the delete: print the item, item.delete().
DeleteItem ==
    /\ pc = "loop_delete"
    /\ \/ DeleteOk
       \/ DeleteRaises
       \/ DeleteInterrupted
    /\ UNCHANGED <<env, authVars, promptVars, item, listed, invoked>>

\* time.sleep(2), the last statement of the inner try.
Sleep ==
    /\ pc = "loop_sleep"
    /\ \/ /\ events' = Append(events, Ev("sleep", cur, item, "ok"))
          /\ pc' = "loop_next"
          /\ UNCHANGED <<out, exitStatus, unhandled, tallyVars, cur,
                         deleted_count, ended>>
       \/ /\ events' = Append(events, Ev("SIGINT", cur, item, "sleep"))
          /\ UNCHANGED deleted_count
          /\ Return(cur, "interrupted",
                    Append(out, <<"Deletion interrupted by user.", 0>>))
    /\ UNCHANGED <<env, authVars, promptVars, item, listed, failed, gone, invoked>>

\* main prints the final summary and returns.
Summary ==
    /\ pc = "summary"
    /\ out' = Append(out, <<"Deletion Summary:", 0>>)
                \o SummaryLines(choice, posts_deleted, comments_deleted)
    /\ pc' = "exited"
    /\ exitStatus' = 0
    /\ UNCHANGED <<env, unhandled, events, authVars, promptVars, tallyVars,
                   loopVars>>

Next ==
    \/ ValidateEnvVars
    \/ BuildAuthUrl
    \/ StartListener
    \/ HandleRequest
    \/ Authorize
    \/ MainMe
    \/ ReadChoice
    \/ ReadConfirm
    \/ DeleterMe
    \/ NextItem
    \/ DeleteItem
    \/ Sleep
    \/ Summary

Spec == Init /\ [][Next]_vars

\* ------------------------------------------------------------------ claims

\* The delete attempts of kind k, in the order they were issued.
Attempts(k) == SelectSeq(events, LAMBDA e : e.op = "delete" /\ e.kind = k)

DeleteIdx == {i \in 1..Len(events) : events[i].op = "delete"}

\* The tally main holds for kind k.
Tally(k) == IF k = "post" THEN posts_deleted ELSE comments_deleted

Printed(text) == \E i \in 1..Len(out) : out[i][1] = text

\* C1: the deleter attempts each listed item exactly once, in listing order;
\* a delete that raises an ordinary error does not stop the loop (the loop
\* ends early only on an enumeration error or an interruption); and when
\* the listing is exhausted the returned tally is n - |F| and exactly the
\* items outside F are deleted.
C1_AttemptsAndTally ==
    \A k \in Kinds :
      LET a == Attempts(k)
      IN  /\ \A i \in 1..Len(a) : a[i].item = i
          /\ ended[k] = "fetch_error"
                => \E i \in 1..Len(events) :
                     events[i].op = "fetch" /\ events[i].kind = k
          /\ ended[k] = "interrupted"
                => \E i \in 1..Len(events) :
                     events[i].op = "SIGINT" /\ events[i].kind = k
          /\ ended[k] = "exhausted"
                => /\ Len(a) = listed[k]
                   /\ Tally(k) = listed[k] - Cardinality(failed[k])
                   /\ gone[k] = (1..listed[k]) \ failed[k]

\* A listing of MaxItems items whose first delete raised was worked to its
\* end.
C1_Witness ==
    \E k \in Kinds :
      /\ ended[k] = "exhausted"
      /\ listed[k] = MaxItems
      /\ failed[k] = {1}
      /\ Tally(k) = MaxItems - 1

\* C2: between any two consecutive delete attempts of one invocation there
\* is a sleep step.
C2_SleepBetweenAttempts ==
    \A i, j \in DeleteIdx :
      (/\ i < j
       /\ events[i].kind = events[j].kind
       /\ \A m \in DeleteIdx : ~(i < m /\ m < j))
        => \E m \in (i + 1)..(j - 1) : events[m].op = "sleep"

\* The text "yes".
YesText == <<"y", "e", "s">>

\* C3 as stated: after a confirmation input that is not "yes" compared
\* case-insensitively, no delete call is ever issued.
C3_Original ==
    (confirmRaw # None /\ Lower(confirmRaw) # YesText) => DeleteIdx = {}

\* C3: a delete call is issued only after a confirmation input that is "yes"
\* once surrounding whitespace is stripped and case is folded; any other
\* confirmation input ends the run with status 0 and the cancellation
\* message, with no deleter invoked and no delete call issued.
C3_DeleteOnlyAfterYes ==
    /\ (DeleteIdx # {} \/ \E k \in Kinds : invoked[k] > 0)
          => (confirmRaw # None /\ Lower(Strip(confirmRaw)) = YesText)
    /\ (confirmRaw # None /\ Lower(Strip(confirmRaw)) # YesText)
          => /\ pc = "exited"
             /\ exitStatus = 0
             /\ out[Len(out)] = <<"Deletion cancelled.", 0>>
             /\ DeleteIdx = {}
             /\ \A k \in Kinds : invoked[k] = 0

\* An answer with a blank inside "yes" was read and the run was cancelled.
C3_Witness ==
    /\ confirmRaw = <<"y", " ", "e", "s">>
    /\ pc = "exited"
    /\ Printed("Deletion cancelled.")

\* C4: once a deletion loop has been interrupted, no delete call of either
\* kind is issued.
C4_NoDeleteAfterInterrupt ==
    \A i \in 1..Len(events) :
      (events[i].op = "SIGINT" /\ events[i].res \in {"fetch", "delete", "sleep"})
        => \A j \in DeleteIdx : j < i

\* C5: a run that was interrupted, at whatever stage, ends with status 0 and
\* nothing unhandled leaves main.
C5_InterruptCaught ==
    (pc = "exited" /\ \E i \in 1..Len(events) : events[i].op = "SIGINT")
      => (exitStatus = 0 /\ unhandled = "none")

\* C6: a confirmed run that is not interrupted ends with status 0 and with
\* the summary, one line per selected kind, whatever fails after the
\* confirmation.
C6_ConfirmedRunReachesSummary ==
    (/\ pc = "exited"
     /\ confirmRaw # None
     /\ IsYes(confirm)
     /\ \A i \in 1..Len(events) : events[i].op # "SIGINT")
      => /\ exitStatus = 0
         /\ Printed("Deletion Summary:")
         /\ choice \in {<<"1">>, <<"3">>} => Printed("Posts deleted")
         /\ choice \in {<<"2">>, <<"3">>} => Printed("Comments deleted")

\* Number of deletes of kind k that returned.
Succeeded(k) ==
    Cardinality({i \in DeleteIdx : events[i].kind = k /\ events[i].res = "ok"})

\* C7: each deleter is invoked at most once and only for a selected kind:
\* choice 1 issues only post deletes, choice 2 only comment deletes; with
\* choice 3 the post deleter has returned before the comment deleter starts
\* and every post delete precedes every comment delete; the final summary is
\* printed after one invocation per selected kind and holds one line, with
\* that kind's tally, for each selected kind; the partial summary of an
\* interrupted run holds one line for each selected kind too.
C7_OncePerSelectedKind ==
    /\ \A k \in Kinds : invoked[k] <= 1
    /\ invoked["post"] = 1 => choice \in {<<"1">>, <<"3">>}
    /\ invoked["comment"] = 1 => choice \in {<<"2">>, <<"3">>}
    /\ \A i \in DeleteIdx : invoked[events[i].kind] = 1
    /\ (invoked["comment"] = 1 /\ choice = <<"3">>)
          => ended["post"] \in {"exhausted", "fetch_error", "interrupted"}
    /\ \A i, j \in DeleteIdx :
         (events[i].kind = "post" /\ events[j].kind = "comment") => i < j
    /\ Printed("Partial Deletion Summary:")
          => /\ pc = "exited"
             /\ choice \in {<<"1">>, <<"3">>}
                  => \E i \in 1..Len(out) : out[i] = <<"Posts deleted", posts_deleted>>
             /\ choice \in {<<"2">>, <<"3">>}
                  => \E i \in 1..Len(out) :
                       out[i] = <<"Comments deleted", comments_deleted>>
    /\ Printed("Deletion Summary:")
          => /\ pc = "exited"
             /\ posts_deleted = Succeeded("post")
             /\ comments_deleted = Succeeded("comment")
             /\ choice = <<"1">>
                  => /\ invoked = [k \in Kinds |-> IF k = "post" THEN 1 ELSE 0]
                     /\ SubSeq(out, Len(out) - 1, Len(out))
                          = << <<"Deletion Summary:", 0>>,
                               <<"Posts deleted", posts_deleted>> >>
             /\ choice = <<"2">>
                  => /\ invoked = [k \in Kinds |-> IF k = "comment" THEN 1 ELSE 0]
                     /\ SubSeq(out, Len(out) - 1, Len(out))
                          = << <<"Deletion Summary:", 0>>,
                               <<"Comments deleted", comments_deleted>> >>
             /\ choice = <<"3">>
                  => /\ invoked = [k \in Kinds |-> 1]
                     /\ SubSeq(out, Len(out) - 2, Len(out))
                          = << <<"Deletion Summary:", 0>>,
                               <<"Posts deleted", posts_deleted>>,
                               <<"Comments deleted", comments_deleted>> >>

\* A run with choice 3 deleted a post and a comment and printed the summary.
C7_Witness ==
    /\ choice = <<"3">>
    /\ Printed("Deletion Summary:")
    /\ Succeeded("post") > 0
    /\ Succeeded("comment") > 0

\* C8 as stated: after a scope input other than "1", "2", "3" the run is
\* over with status 0, no confirmation was asked and no delete was issued.
C8_Original ==
    (choiceRaw # None /\ choiceRaw \notin {<<"1">>, <<"2">>, <<"3">>})
      => (pc = "exited" /\ exitStatus = 0 /\ confirmRaw = None /\ DeleteIdx = {})

\* C8: after a scope input that, stripped of surrounding whitespace, is not
\* "1", "2" or "3", the run is over with status 0 and the message "Invalid
\* choice. Exiting." as its last output; no confirmation was read, no deleter
\* invoked, no delete issued, and the last external call is the identity
\* lookup that preceded the prompt (one listener, one token exchange).
C8_InvalidChoiceExits ==
    (choiceRaw # None /\ Strip(choiceRaw) \notin {<<"1">>, <<"2">>, <<"3">>})
      => /\ pc = "exited"
         /\ exitStatus = 0
         /\ unhandled = "none"
         /\ out[Len(out)] = <<"Invalid choice. Exiting.", 0>>
         /\ confirmRaw = None
         /\ DeleteIdx = {}
         /\ \A k \in Kinds : invoked[k] = 0
         /\ events[Len(events)] = Ev("me", "none", 0, "ok")
         /\ Cardinality({i \in 1..Len(events) :
                           events[i].op \in {"listen", "authorize"}}) = 2

\* The answer "4" was read and the run ended.
C8_Witness ==
    /\ choiceRaw = <<"4">>
    /\ pc = "exited"
    /\ Printed("Invalid choice. Exiting.")

\* Positions of the fields of r's query called code / called code and not
\* blank.
CodeFields(r) == {i \in 1..Len(r.query) : r.query[i][1] = "code"}

NonBlankCodeFields(r) == {i \in CodeFields(r) : r.query[i][2] # <<>>}

First(S) == CHOOSE i \in S : \A j \in S : i <= j

Unset == {v \in RequiredSet : env[v] = None}

UnsetOrEmpty == {v \in RequiredSet : env[v] = None \/ env[v] = <<>>}

\* The variable names the run printed, in order.
NamesPrinted == SelectSeq(out, LAMBDA l : l[1] \in RequiredSet)

\* C10 as stated: with a non-empty set S of variables unset, the run ends
\* with non-zero status having listed exactly S.
C10_Original ==
    (Unset # {} /\ pc # "start")
      => /\ pc = "exited"
         /\ exitStatus > 0
         /\ {NamesPrinted[i][1] : i \in 1..Len(NamesPrinted)} = Unset

\* C10: with a non-empty set S of required variables unset or set to the
\* empty string, the run ends right after validation with status 1, having
\* printed the error header and exactly the names in S, each once, in the
\* order of required_vars; main's handlers print nothing, no authorization
\* URL is built, no listener started, no external call made. With S empty no
\* such error is printed.
C10_MissingConfigIsFatal ==
    /\ (UnsetOrEmpty # {} /\ pc # "start")
          => /\ pc = "exited"
             /\ exitStatus = 1
             /\ unhandled = "none"
             /\ out = << <<"Error: Missing required environment variables:", 0>> >>
                      \o [i \in 1..Len(NamesPrinted) |-> NamesPrinted[i]]
                      \o << <<"Please check your .env file", 0>> >>
             /\ [i \in 1..Len(NamesPrinted) |-> NamesPrinted[i][1]]
                  = SelectSeq(required_vars, LAMBDA v : v \in UnsetOrEmpty)
             /\ events = <<>>
             /\ server.state = "none"
             /\ request = NoRequest
    /\ UnsetOrEmpty = {}
          => ~Printed("Error: Missing required environment variables:")

\* The client id is unset and the user agent empty: the run has ended with
\* status 1.
C10_Witness ==
    /\ env["REDDIT_CLIENT_ID"] = None
    /\ env["REDDIT_CLIENT_SECRET"] = <<"v">>
    /\ env["REDDIT_USER_AGENT"] = <<>>
    /\ pc = "exited"
    /\ exitStatus = 1

====
